---- MODULE Spec2Model ----
(***************************************************************************)
(* Model of the workflow editor (src/workflow_editor.py): the block        *)
(* catalog loader, the canvas (placed blocks, connections, flag widgets)   *)
(* and the pipeline assembler / executor.                                  *)
(*                                                                         *)
(* A Python str is a sequence of one-character strings, so that strip,     *)
(* startswith, quoting and joining are computed character by character.    *)
(* A CanvasBlock is identified by the number of the spawn that created it; *)
(* Python compares blocks by identity, and a number is never reused.       *)
(***************************************************************************)
EXTENDS Integers, Sequences, FiniteSets, TLC

\* ------------------------------------------------------------------ bounds
\* Blocks spawned over the life of one editor (bootstrap included).
MaxBlocks == 3
\* Length of a text typed into a flag's value field.
MaxTextLen == 2
\* Processes launched by execute_workflow over one run of the model.
MaxRuns == 2

\* ----------------------------------------------------------------- strings
Range(s) == {s[i] : i \in 1..Len(s)}

EmptyStr == << >>

\* The characters a user types into a value field in this model.
Alphabet == {"f", " ", "'", "~"}

\* str.isspace for one character.
IsSpace(c) == c = " "

RECURSIVE LStrip(_)
LStrip(s) == IF s # << >> /\ IsSpace(Head(s)) THEN LStrip(Tail(s)) ELSE s

RECURSIVE RStrip(_)
RStrip(s) ==
    IF s # << >> /\ IsSpace(s[Len(s)]) THEN RStrip(SubSeq(s, 1, Len(s) - 1)) ELSE s

\* s.rstrip("/")
RECURSIVE RStrip_Slash(_)
RStrip_Slash(s) ==
    IF s # << >> /\ s[Len(s)] = "/" THEN RStrip_Slash(SubSeq(s, 1, Len(s) - 1)) ELSE s

\* str.strip()
Strip(s) == RStrip(LStrip(s))

\* sep.join(parts)
RECURSIVE Join(_, _)
Join(sep, parts) ==
    IF parts = << >> THEN << >>
    ELSE IF Len(parts) = 1 THEN parts[1]
    ELSE parts[1] \o sep \o Join(sep, Tail(parts))

\* [x for x in s if keep(x)], for a sequence s
FilterSeq(s, keep(_)) ==
    LET F[i \in 0..Len(s)] ==
            IF i = 0 THEN << >>
            ELSE IF keep(s[i]) THEN Append(F[i - 1], s[i]) ELSE F[i - 1]
    IN  F[Len(s)]

\* All sequences over S of length at most n.
RECURSIVE SeqsUpTo(_, _)
SeqsUpTo(S, n) ==
    IF n = 0 THEN {<< >>}
    ELSE LET shorter == SeqsUpTo(S, n - 1)
         IN  shorter \cup {Append(s, c) : s \in shorter, c \in S}

\* The value None, where the code holds an Optional[str].
None == <<"None">>

\* -------------------------------------------------------- shell quoting
\* The characters shlex.quote leaves alone: [A-Za-z0-9_@%+=:,./-]
SafeChars == {"a", "b", "c", "d", "e", "f", "h", "n", "o", "v", "x", "-", "/", "."}

\* s.replace("'", "'\"'\"'")
RECURSIVE EscapeQuotes(_)
EscapeQuotes(s) ==
    IF s = << >> THEN << >>
    ELSE (IF Head(s) = "'" THEN <<"'", "\"", "'", "\"", "'">> ELSE <<Head(s)>>)
         \o EscapeQuotes(Tail(s))

\* shlex.quote, were the text left as entered
ShlexQuote_as_entered(s) == s

\* shlex.quote(s)
ShlexQuote(s) ==
    IF s = << >> THEN <<"'", "'">>
    ELSE IF Range(s) \subseteq SafeChars THEN s
    ELSE <<"'">> \o EscapeQuotes(s) \o <<"'">>

\* The index of the first "/" of s at or after position from, 0 when there is none
\* (str.find, one-based).
FindSlash(s, from) ==
    LET hits == {i \in from..Len(s) : s[i] = "/"}
    IN  IF hits = {} THEN 0 ELSE CHOOSE i \in hits : \A j \in hits : i <= j

\* os.path.expanduser(path) in an environment whose home directory is home (None
\* when neither HOME nor the password database gives one) and whose password
\* database knows the users of known_users (user name -> directory).
ExpandUser(path, home, known_users) ==
    IF path = << >> \/ Head(path) # "~" THEN path
    ELSE LET f == FindSlash(path, 2)
             i == IF f = 0 THEN Len(path) + 1 ELSE f
             name == SubSeq(path, 2, i - 1)
             rest == SubSeq(path, i, Len(path))
         IN  IF i = 2
             THEN IF home = None THEN path
                  ELSE LET r == RStrip_Slash(home) \o rest
                       IN  IF r = << >> THEN <<"/">> ELSE r
             ELSE IF name \in DOMAIN known_users
                  THEN LET r == RStrip_Slash(known_users[name]) \o rest
                       IN  IF r = << >> THEN <<"/">> ELSE r
                  ELSE path

\* ------------------------------------------------------------ variables
VARIABLES
    definitions,     \* WorkflowEditor.definitions: the loaded catalog
    canvas_blocks,   \* WorkflowEditor.canvas_blocks: placed blocks, in placement order
    connections,     \* WorkflowEditor.connections: [source, target], in creation order
    blocks,          \* placed block -> [definition, checked, text]: its flag widgets
    next_id,         \* the number the next spawned CanvasBlock gets
    preview,         \* preview_checkbox.isChecked()
    command_display, \* command_display.text()
    launched,        \* the command strings of the shell processes launched, in order
    log,             \* the last diagnostic execute_workflow printed
    env,             \* [home, users]: what os.path.expanduser reads
    catalog_file,    \* the catalog file load_block_definitions is given
    load_result      \* what load_block_definitions did with it

vars == <<definitions, canvas_blocks, connections, blocks, next_id, preview,
          command_display, launched, log, env, catalog_file, load_result>>

editor_vars == <<definitions, canvas_blocks, connections, blocks, next_id, preview,
                 command_display, launched, log, env>>

loader_vars == <<catalog_file, load_result>>

\* --------------------------------------------------------- flag arguments
\* CanvasBlock.flag_arguments: block is [definition, checked, text], the widget
\* i of block.definition.flags[i] holding checked[i] and text[i].
\* The argument of a flag, were the checkbox not looked at
FlagArgument_unchecked_too(flag, is_checked, text, e) ==
    IF flag.long_option = << >> THEN << >>
    ELSE IF flag.takes_value
         THEN (IF Strip(text) # << >>
               THEN <<flag.long_option \o <<" ">>
                          \o ShlexQuote(ExpandUser(Strip(text), e.home, e.users))>>
               ELSE << >>)
         ELSE <<flag.long_option>>

FlagArgument(flag, is_checked, text, e) ==
    LET option == flag.long_option
    IN  IF option = << >> \/ ~is_checked THEN << >>
        ELSE IF flag.takes_value
             THEN LET value == Strip(text)
                  IN  IF value # << >>
                      THEN <<option \o <<" ">>
                                    \o ShlexQuote(ExpandUser(value, e.home, e.users))>>
                      ELSE << >>
             ELSE <<option>>

flag_arguments(block, e) ==
    LET flags == block.definition.flags
        A[i \in 0..Len(flags)] ==
            IF i = 0 THEN << >>
            ELSE A[i - 1] \o FlagArgument(flags[i], block.checked[i], block.text[i], e)
    IN  A[Len(flags)]

\* ---------------------------------------------------------- ordered_blocks
\* outgoing.get(block) when block has no entry.
NoBlock == 0

\* incoming_count after incoming_count[block] = incoming_count.get(block, 0) + add:
\* keys are its keys in insertion order, count its values.
Counted(keys, count, block, add) ==
    [keys |-> IF block \in Range(keys) THEN keys ELSE Append(keys, block),
     count |-> [b \in Range(keys) \cup {block} |->
                  IF b = block
                  THEN (IF b \in Range(keys) THEN count[b] ELSE 0) + add
                  ELSE count[b]]]

\* One pass of `for connection in self.connections` over the dictionaries m:
\* inc is incoming_count after the target was counted.
SetSource(m, c, inc) ==
    [outgoing |-> [b \in DOMAIN m.outgoing \cup {c.source} |->
                     IF b = c.source THEN c.target ELSE m.outgoing[b]],
     inc |-> Counted(inc.keys, inc.count, c.source, 0)]

AddConnectionTo(m, c) == SetSource(m, c, Counted(m.inc.keys, m.inc.count, c.target, 1))

RECURSIVE FoldConnections(_, _)
FoldConnections(m, conns) ==
    IF conns = << >> THEN m
    ELSE FoldConnections(AddConnectionTo(m, Head(conns)), Tail(conns))

\* The dictionaries ordered_blocks builds from cb (canvas_blocks) and conns
\* (connections): outgoing, and incoming_count as its keys in insertion order
\* (keys) and its values (count).
Flatten(m) == [outgoing |-> m.outgoing, keys |-> m.inc.keys, count |-> m.inc.count]

\* The dictionaries, were incoming_count not first filled from canvas_blocks: its
\* keys are then in the order the connections name them.
ConnectionMaps_by_connection(cb, conns) ==
    Flatten(FoldConnections(
        [outgoing |-> [b \in {} |-> NoBlock],
         inc |-> [keys |-> << >>, count |-> [b \in {} |-> 0]]],
        conns))

ConnectionMaps(cb, conns) ==
    Flatten(FoldConnections(
        [outgoing |-> [b \in {} |-> NoBlock],
         inc |-> [keys |-> cb, count |-> [b \in Range(cb) |-> 0]]],
        conns))

\* starts, were a block with an incoming connection a start too
StartsOf_every_source(m) == FilterSeq(m.keys, LAMBDA b : b \in DOMAIN m.outgoing)

\* starts, from the dictionaries m
StartsOf(m) ==
    FilterSeq(m.keys, LAMBDA b : m.count[b] = 0 /\ b \in DOMAIN m.outgoing)

Starts(cb, conns) == StartsOf(ConnectionMaps(cb, conns))

\* walk(start_block), from the list visited so far.
RECURSIVE Walk(_, _, _)
Walk(block, visited, outgoing) ==
    IF block # NoBlock /\ block \notin Range(visited)
    THEN Walk(IF block \in DOMAIN outgoing THEN outgoing[block] ELSE NoBlock,
              Append(visited, block), outgoing)
    ELSE visited

\* for start in starts: walk(start)
RECURSIVE WalkAll(_, _, _)
WalkAll(starts, visited, outgoing) ==
    IF starts = << >> THEN visited
    ELSE WalkAll(Tail(starts), Walk(Head(starts), visited, outgoing), outgoing)

\* visited after `if starts: ... else: visited.extend(self.canvas_blocks)`
VisitedFrom(cb, starts, outgoing) ==
    IF starts # << >> THEN WalkAll(starts, << >>, outgoing) ELSE cb

WalkedWith(cb, m) == VisitedFrom(cb, StartsOf(m), m.outgoing)

WalkedBlocks(cb, conns) == WalkedWith(cb, ConnectionMaps(cb, conns))

\* the closing loop, were it left out
AppendUnvisited_nothing(cb, visited) == visited

\* the closing loop: every block not in visited is appended
AppendUnvisited(cb, visited) ==
    visited \o FilterSeq(cb, LAMBDA b : b \notin Range(visited))

\* ordered_blocks, were it the placement order whatever the connections
ordered_blocks_as_placed(cb, conns) == cb

\* ordered_blocks, were the connections' sources in creation order emitted first
ordered_blocks_by_creation(cb, conns) ==
    [i \in 1..Len(conns) |-> conns[i].source]
        \o FilterSeq(cb, LAMBDA b : \A i \in 1..Len(conns) : conns[i].source # b)

ordered_blocks(cb, conns) ==
    IF cb = << >> THEN << >> ELSE AppendUnvisited(cb, WalkedBlocks(cb, conns))

\* ----------------------------------------------------- build_command_string
\* `if segment: segments.append(segment)`
KeepSegment(segment) == IF segment # << >> THEN <<segment>> ELSE << >>

\* The segment of one block, as a list: << >> when the block contributes none.
Segment(block, e) ==
    IF block.definition.command = << >> THEN << >>
    ELSE KeepSegment(Join(<<" ">>,
             FilterSeq(<<block.definition.command>> \o flag_arguments(block, e),
                       LAMBDA part : part # << >>)))

\* segments, for the blocks of order
RECURSIVE Segments(_, _, _)
Segments(order, bl, e) ==
    IF order = << >> THEN << >>
    ELSE Segment(bl[Head(order)], e) \o Segments(Tail(order), bl, e)

build_command_string(cb, conns, bl, e) ==
    Join(<<" ", "|", " ">>, Segments(ordered_blocks(cb, conns), bl, e))

\* ------------------------------------------------------------ YAML values
\* What yaml.safe_load returns: [t, v], t the Python type and v the value (a
\* str as its characters, a list as a sequence, a dict as a function of its keys).
YNull == [t |-> "null", v |-> 0]
YStr(s) == [t |-> "str", v |-> s]
YInt(n) == [t |-> "int", v |-> n]
YBool(b) == [t |-> "bool", v |-> b]
YList(items) == [t |-> "list", v |-> items]
YDict(f) == [t |-> "dict", v |-> f]
EmptyDict == YDict([k \in {} |-> YNull])

\* bool(y)
Truthy(y) ==
    CASE y.t = "null" -> FALSE
      [] y.t = "str"  -> y.v # << >>
      [] y.t = "int"  -> y.v # 0
      [] y.t = "bool" -> y.v
      [] y.t = "list" -> y.v # << >>
      [] y.t = "dict" -> DOMAIN y.v # {}

\* a or b
Or(a, b) == IF Truthy(a) THEN a ELSE b

\* d.get(key, default), d a dict
GetOr(d, key, default) == IF key \in DOMAIN d.v THEN d.v[key] ELSE default

\* d.get(key)
Get(d, key) == GetOr(d, key, YNull)

Digits == <<"0", "1", "2", "3", "4", "5", "6", "7", "8", "9">>

\* str(n), n >= 0
RECURSIVE NatStr(_)
NatStr(n) == IF n < 10 THEN <<Digits[n + 1]>> ELSE NatStr(n \div 10) \o <<Digits[(n % 10) + 1]>>

\* str(y) and repr(y), for scalars and lists of them
RECURSIVE PyStr(_)
RECURSIVE PyRepr(_)
RECURSIVE PyReprs(_)
PyStr(y) ==
    CASE y.t = "null" -> <<"N", "o", "n", "e">>
      [] y.t = "str"  -> y.v
      [] y.t = "int"  -> IF y.v < 0 THEN <<"-">> \o NatStr(0 - y.v) ELSE NatStr(y.v)
      [] y.t = "bool" -> IF y.v THEN <<"T", "r", "u", "e">> ELSE <<"F", "a", "l", "s", "e">>
      [] y.t = "list" -> PyRepr(y)

PyReprs(items) ==
    IF items = << >> THEN << >> ELSE <<PyRepr(Head(items))>> \o PyReprs(Tail(items))

PyRepr(y) ==
    CASE y.t = "str"  -> <<"'">> \o y.v \o <<"'">>
      [] y.t = "list" -> <<"[">> \o Join(<<",", " ">>, PyReprs(y.v)) \o <<"]">>
      [] OTHER        -> PyStr(y)

\* f"block_{n}"
BlockName(n) == <<"b", "l", "o", "c", "k", "_">> \o NatStr(n)

\* ---------------------------------------------------------- catalog loader
\* What a call does: it returns a value or an exception leaves it.
Return(value) == [ok |-> TRUE, value |-> value]
Raise(exc) == [ok |-> FALSE, exc |-> exc]

\* ensure_prefixed, were the prefix put before every option
ensure_prefixed_every_option(option, prefix) ==
    IF ~Truthy(option) THEN Return(<< >>)
    ELSE IF option.t # "str" THEN Raise("AttributeError")
    ELSE IF Strip(option.v) = << >> THEN Return(<< >>)
    ELSE Return(prefix \o Strip(option.v))

ensure_prefixed(option, prefix) ==
    IF ~Truthy(option) THEN Return(<< >>)
    ELSE IF option.t # "str" THEN Raise("AttributeError")
    ELSE LET stripped == Strip(option.v)
         IN  IF stripped = << >> THEN Return(<< >>)
             ELSE IF Head(stripped) = "-" THEN Return(stripped)
             ELSE Return(prefix \o stripped)

\* s or default, for two str
NonEmptyOr(s, default) == IF s # << >> THEN s ELSE default

\* str(value).strip() or None
StripOrNone(value) == NonEmptyOr(Strip(PyStr(value)), None)

\* parse_flag: key, before `key = key or "flag"`
FlagKey(data, long_option) ==
    Strip(PyStr(Or(Get(data, "key"), Or(Get(data, "name"),
              Or(YStr(long_option), Or(Get(data, "short"), YStr(<<"f", "l", "a", "g">>)))))))

\* parse_flag: label, before `if not label`
FlagLabel(data) == Strip(PyStr(Or(Get(data, "label"), YStr(<< >>))))

\* parse_flag: default_value, for a flag that takes a value
DefaultValue(raw_default) == IF raw_default.t = "null" THEN << >> ELSE PyStr(raw_default)

\* The BlockFlag parse_flag returns.
BlockFlag(data, long_option, short_option, key, takes_value, raw_default) ==
    [key |-> key,
     label |-> NonEmptyOr(FlagLabel(data), NonEmptyOr(long_option, key)),
     long_option |-> long_option,
     short_option |-> short_option,
     default_value |-> IF takes_value THEN DefaultValue(raw_default) ELSE << >>,
     takes_value |-> takes_value,
     default_checked |-> IF takes_value THEN FALSE ELSE Truthy(raw_default),
     placeholder |-> StripOrNone(GetOr(data, "placeholder", YStr(<< >>))),
     description |-> StripOrNone(GetOr(data, "description", YStr(<< >>)))]

ParseFlagTyped(data, long_option, short_option, takes_value) ==
    BlockFlag(data, long_option, short_option,
              NonEmptyOr(FlagKey(data, long_option), <<"f", "l", "a", "g">>),
              takes_value,
              GetOr(data, "default", IF takes_value THEN YStr(<< >>) ELSE YBool(FALSE)))

\* parse_flag, long and short being what the two ensure_prefixed calls did
ParseFlagWith(data, long, short) ==
    IF ~long.ok THEN long
    ELSE IF ~short.ok THEN short
    ELSE Return(ParseFlagTyped(data, long.value, short.value,
                               Truthy(GetOr(data, "takes_value", YBool(TRUE)))))

parse_flag(data) ==
    ParseFlagWith(data,
                  ensure_prefixed(Or(Get(data, "long"), Get(data, "name")), <<"-", "-">>),
                  IF Truthy(Get(data, "short"))
                  THEN ensure_prefixed(Get(data, "short"), <<"-">>)
                  ELSE Return(None))

\* The fallback BlockDefinition.
FallbackDefinition ==
    [identifier |-> <<"d", "e", "f", "a", "u", "l", "t">>,
     title |-> <<"D", "e", "f", "a", "u", "l", "t", " ", "B", "l", "o", "c", "k">>,
     command |-> <<"e", "c", "h", "o", " ", "'", "d", "e", "f", "a", "u", "l", "t", " ", "b", "l", "o", "c", "k", "'">>,
     input |-> <<"a", "n", "y">>,
     output |-> <<"a", "n", "y">>,
     color |-> <<"g", "r", "a", "y">>,
     include_in_bootstrap |-> TRUE,
     flags |-> << >>]

\* the flag list, were every parsed flag appended
KeepFlag_every_flag(flags, flag) == Append(flags, flag)

\* `if flag and flag.long_option: flags.append(flag)`
KeepFlag(flags, flag) == IF flag.long_option # << >> THEN Append(flags, flag) ELSE flags

\* `for flag_entry in raw_flags`, flags being the list so far: Return(flags) or
\* the exception parse_flag raised.
RECURSIVE ParseFlagList(_, _)
RECURSIVE AfterFlag(_, _, _)
ParseFlagList(items, flags) ==
    IF items = << >> THEN Return(flags)
    ELSE IF Head(items).t # "dict" THEN ParseFlagList(Tail(items), flags)
    ELSE AfterFlag(parse_flag(Head(items)), Tail(items), flags)

AfterFlag(flag, rest, flags) ==
    IF ~flag.ok THEN flag ELSE ParseFlagList(rest, KeepFlag(flags, flag.value))

ParseFlags(raw_flags) ==
    IF raw_flags.t # "list" THEN Return(<< >>) ELSE ParseFlagList(raw_flags.v, << >>)

\* identifier of an entry, fresh being f"block_{len(definitions) + 1}"
Identifier(entry, fresh) ==
    NonEmptyOr(Strip(PyStr(Or(Get(entry, "id"), Or(Get(entry, "name"),
                   Or(Get(entry, "command"), YStr(fresh)))))),
               fresh)

\* The BlockDefinition of an entry.
MakeDefinition(entry, identifier, flags) ==
    [identifier |-> identifier,
     title |-> Strip(PyStr(Or(Get(entry, "title"), YStr(identifier)))),
     command |-> Strip(PyStr(Or(Get(entry, "command"), YStr(identifier)))),
     input |-> PyStr(GetOr(entry, "input", YStr(<<"a", "n", "y">>))),
     output |-> PyStr(GetOr(entry, "output", YStr(<<"a", "n", "y">>))),
     color |-> PyStr(GetOr(entry, "color", YStr(<<"g", "r", "a", "y">>))),
     include_in_bootstrap |-> Truthy(GetOr(entry, "include_in_bootstrap", YBool(TRUE))),
     flags |-> flags]

EntryWith(entry, defs, identifier, flags) ==
    IF ~flags.ok THEN flags
    ELSE Return(Append(defs, MakeDefinition(entry, identifier, flags.value)))

\* One pass of `for entry in blocks_data`, defs being definitions so far.
ParseEntry(entry, defs) ==
    IF entry.t # "dict" THEN Return(defs)
    ELSE EntryWith(entry, defs, Identifier(entry, BlockName(Len(defs) + 1)),
                   ParseFlags(GetOr(entry, "flags", YList(<< >>))))

RECURSIVE ParseEntries(_, _)
RECURSIVE AfterEntry(_, _)
ParseEntries(items, defs) ==
    IF items = << >> THEN Return(defs)
    ELSE AfterEntry(ParseEntry(Head(items), defs), Tail(items))

AfterEntry(result, rest) ==
    IF ~result.ok THEN result ELSE ParseEntries(rest, result.value)

\* iter(y): the items a for loop over y sees, or the TypeError it raises. The keys
\* of a dict and the characters of a str are strings, written here as one-character
\* strings: the loop only asks whether an item is a dict.
Iterate(y) ==
    CASE y.t = "list" -> Return(y.v)
      [] y.t = "str"  -> Return([i \in 1..Len(y.v) |-> YStr(<<y.v[i]>>)])
      [] y.t = "dict" -> Return([i \in 1..Cardinality(DOMAIN y.v) |-> YStr(<<"k">>)])
      [] OTHER        -> Raise("TypeError")

\* the end of load_block_definitions, were the fallback left out
OrFallback_as_parsed(result) == result

\* `if definitions: return definitions`, else the fallback
OrFallback(result) ==
    IF ~result.ok THEN result
    ELSE IF result.value # << >> THEN result
    ELSE Return(<<FallbackDefinition>>)

LoadBlocks(blocks_data) ==
    IF ~blocks_data.ok THEN blocks_data
    ELSE OrFallback(ParseEntries(blocks_data.value, << >>))

\* from `blocks_data = raw.get("blocks", [])` on
LoadFrom(raw) ==
    IF raw.t # "dict" THEN Raise("AttributeError")
    ELSE LoadBlocks(Iterate(GetOr(raw, "blocks", YList(<< >>))))

\* load_block_definitions(yaml_path) for a file [exists, read, content]: read is
\* what opening and parsing it does ("ok", "OSError", "YAMLError",
\* "UnicodeDecodeError"), content what yaml.safe_load returns when it is "ok".
load_block_definitions(file) ==
    IF ~file.exists THEN Return(<<FallbackDefinition>>)
    ELSE IF file.read \in {"OSError", "YAMLError"} THEN Return(<<FallbackDefinition>>)
    ELSE IF file.read # "ok" THEN Raise(file.read)
    ELSE LoadFrom(Or(file.content, EmptyDict))

\* ------------------------------------------------------------ the editor
\* The printable ASCII characters in code-point order (backslash and backquote
\* left out): Python compares str by code point.
Ascii ==
<<
    " ", "!", "\"", "#", "$", "%", "&", "'", "(", ")", "*", "+",
    ",", "-", ".", "/", "0", "1", "2", "3", "4", "5", "6", "7",
    "8", "9", ":", ";", "<", "=", ">", "?", "@", "A", "B", "C",
    "D", "E", "F", "G", "H", "I", "J", "K", "L", "M", "N", "O",
    "P", "Q", "R", "S", "T", "U", "V", "W", "X", "Y", "Z", "[",
    "]", "^", "_", "a", "b", "c", "d", "e", "f", "g",
    "h", "i", "j", "k", "l", "m", "n", "o", "p", "q", "r", "s",
    "t", "u", "v", "w", "x", "y", "z", "{", "|", "}", "~">>

Ord(c) == CHOOSE i \in 1..Len(Ascii) : Ascii[i] = c

\* a < b for two str
RECURSIVE StrLess(_, _)
StrLess(a, b) ==
    IF b = << >> THEN FALSE
    ELSE IF a = << >> THEN TRUE
    ELSE IF Head(a) = Head(b) THEN StrLess(Tail(a), Tail(b))
    ELSE Ord(Head(a)) < Ord(Head(b))

\* sorted so far, with d inserted after the last element that is not greater
InsertByTitle(sorted, d) ==
    LET k == Cardinality({i \in 1..Len(sorted) :
                             \A j \in 1..i : ~StrLess(d.title, sorted[j].title)})
    IN  SubSeq(sorted, 1, k) \o <<d>> \o SubSeq(sorted, k + 1, Len(sorted))

\* sorted(defs, key=lambda d: d.title): a stable sort
RECURSIVE SortInto(_, _)
SortInto(sorted, defs) ==
    IF defs = << >> THEN sorted
    ELSE SortInto(InsertByTitle(sorted, Head(defs)), Tail(defs))

SortedByTitle(defs) == SortInto(<< >>, defs)

\* CanvasBlock.__init__ / _layout_content: the flag widgets of a new block. A
\* flag that takes no value has no value field (None).
NewBlock(definition) ==
    [definition |-> definition,
     checked |-> [i \in 1..Len(definition.flags) |-> definition.flags[i].default_checked],
     text |-> [i \in 1..Len(definition.flags) |->
                  IF definition.flags[i].takes_value
                  THEN definition.flags[i].default_value ELSE None]]

_find_connection(conns, source, target) ==
    \E i \in 1..Len(conns) : conns[i].source = source /\ conns[i].target = target

_remove_outgoing_connections(conns, source) ==
    FilterSeq(conns, LAMBDA c : c.source # source)

\* _remove_incoming_connections, were nothing removed
_remove_incoming_connections_none(conns, target) == conns

_remove_incoming_connections(conns, target) ==
    FilterSeq(conns, LAMBDA c : c.target # target)

\* add_connection without the removal of the target's incoming connections
add_connection_keeps_incoming(conns, source, target) ==
    IF source = target THEN conns
    ELSE IF _find_connection(conns, source, target) THEN conns
    ELSE Append(_remove_outgoing_connections(conns, source),
                [source |-> source, target |-> target])

\* add_connection(source, target): the connections it leaves
\* add_connection, were no earlier connection removed
add_connection_appends(conns, source, target) ==
    IF source = target \/ _find_connection(conns, source, target) THEN conns
    ELSE Append(conns, [source |-> source, target |-> target])

add_connection(conns, source, target) ==
    IF source = target THEN conns
    ELSE IF _find_connection(conns, source, target) THEN conns
    ELSE Append(_remove_incoming_connections(
                    _remove_outgoing_connections(conns, source), target),
                [source |-> source, target |-> target])

\* remove_connections_involving, were only the connections out of the block removed
remove_connections_of_source(conns, block) ==
    FilterSeq(conns, LAMBDA c : c.source # block)

remove_connections_involving(conns, block) ==
    FilterSeq(conns, LAMBDA c : ~(c.source = block \/ c.target = block))

\* _bootstrap_demo_chain: the bootstrapped definitions, placed in title order and
\* connected one after the other.
BootstrapDefs(defs) ==
    SortedByTitle(FilterSeq(defs, LAMBDA d : d.include_in_bootstrap))

RECURSIVE BootstrapConnections(_)
BootstrapConnections(n) ==
    IF n <= 1 THEN << >> ELSE add_connection(BootstrapConnections(n - 1), n - 1, n)

\* ----------------------------------------------------------- catalog files
\* Catalog entries, as yaml.safe_load returns them.
LongFlag(name) == YDict([long |-> YStr(name)])
SwitchFlag(name, default) ==
    YDict([long |-> YStr(name), takes_value |-> YBool(FALSE), default |-> YBool(default)])

\* - {id: a, command: a, flags: [{long: n}], include_in_bootstrap: boot}
EntryA(boot) ==
    YDict([id |-> YStr(<<"a">>), command |-> YStr(<<"a">>),
           flags |-> YList(<<LongFlag(<<"n">>)>>), include_in_bootstrap |-> YBool(boot)])

\* - {id: b, command: b, flags: [{long: v, takes_value: false}], ...}
EntryB(boot) ==
    YDict([id |-> YStr(<<"b">>), command |-> YStr(<<"b">>),
           flags |-> YList(<<SwitchFlag(<<"v">>, FALSE)>>),
           include_in_bootstrap |-> YBool(boot)])

\* - {id: d, command: d, include_in_bootstrap: boot}
EntryD(boot) ==
    YDict([id |-> YStr(<<"d">>), command |-> YStr(<<"d">>),
           include_in_bootstrap |-> YBool(boot)])

\* - {id: c, command: "  ", ...}: a command of blanks only
EntryC(boot) ==
    YDict([id |-> YStr(<<"c">>), command |-> YStr(<<" ", " ">>),
           include_in_bootstrap |-> YBool(boot)])

ReadableFile(content) == [exists |-> TRUE, read |-> "ok", content |-> content]

Catalog(entries) == ReadableFile(YDict([blocks |-> YList(entries)]))

\* The blocks.yaml files the editor is started with in this model: one whose
\* three blocks are all bootstrapped, one that bootstraps none.
EditorFiles ==
    <<Catalog(<<EntryB(TRUE), EntryD(TRUE), EntryA(TRUE)>>),
      Catalog(<<EntryC(FALSE), EntryB(FALSE)>>)>>

\* - {id: g, command: g, flags: [v (switch), n (value), q (switch, default on)]}
EntryG ==
    YDict([id |-> YStr(<<"g">>), command |-> YStr(<<"g">>),
           flags |-> YList(<<SwitchFlag(<<"v">>, FALSE), LongFlag(<<"n">>),
                             SwitchFlag(<<"q">>, TRUE)>>)])

\* The catalogs of the flag widgets' model: one block with three flags, and the
\* chain a -> b.
FlagFiles ==
    <<Catalog(<<EntryG>>),
      Catalog(<<EntryA(TRUE), EntryB(TRUE)>>)>>

\* The environments of this model: HOME set, HOME "/" with a user f, and no home
\* directory known.
HomeEnv == [home |-> <<"/", "h">>, users |-> [u \in {} |-> << >>]]
Envs ==
    {HomeEnv,
     [home |-> <<"/">>, users |-> [u \in {<<"f">>} |-> <<"/", "f">>]],
     [home |-> None, users |-> [u \in {} |-> << >>]]}

\* The texts typed into a value field: every text of at most MaxTextLen
\* characters of Alphabet, and some longer ones.
AllTexts ==
    SeqsUpTo(Alphabet, MaxTextLen)
        \cup {<<"f", "o", "o">>, <<" ", "f", "o", "o", " ">>, <<"f", " ", "o">>,
              <<"~", "/", "f">>, <<"~", "f", "/", "o">>, <<"f", "'", "o">>}

\* WorkflowEditor.__init__ with _bootstrap_demo_chain: boot are the definitions
\* it places.
Constructed(defs, boot, e) ==
    /\ definitions = defs
    /\ canvas_blocks = [i \in 1..Len(boot) |-> i]
    /\ blocks = [i \in 1..Len(boot) |-> NewBlock(boot[i])]
    /\ connections = BootstrapConnections(Len(boot))
    /\ next_id = Len(boot) + 1
    /\ preview = FALSE
    /\ command_display = << >>
    /\ launched = << >>
    /\ log = "none"
    /\ env = e

\* build_app: load the catalog, construct the editor.
BuiltApp(file, loaded, e) ==
    /\ catalog_file = file
    /\ load_result = loaded
    /\ loaded.ok
    /\ Constructed(loaded.value, BootstrapDefs(loaded.value), e)

InitEditor(file, e) == BuiltApp(file, load_block_definitions(file), e)

Init == \E i \in 1..Len(EditorFiles) : InitEditor(EditorFiles[i], HomeEnv)

\* ---------------------------------------------------------------- actions
\* PaletteBlock.mousePressEvent -> spawn_canvas_block(definition)
spawn_canvas_block ==
    /\ next_id <= MaxBlocks
    /\ \E d \in 1..Len(definitions) :
          /\ canvas_blocks' = Append(canvas_blocks, next_id)
          /\ blocks' = [b \in DOMAIN blocks \cup {next_id} |->
                           IF b = next_id THEN NewBlock(definitions[d]) ELSE blocks[b]]
    /\ next_id' = next_id + 1
    /\ UNCHANGED <<definitions, connections, preview, command_display, launched, log,
                   env, loader_vars>>

\* CanvasBlock.mouseReleaseEvent -> try_snap_block(block). The loop over the
\* other blocks stops at the first one with a port within the snap radius: hit
\* is its position among the others (0: none is near), side is "out" when
\* block's output is near its input and "in" when only block's input is near
\* its output.
try_snap_block ==
    \E block \in Range(canvas_blocks) :
        LET others == FilterSeq(canvas_blocks, LAMBDA o : o # block)
        IN  \E hit \in 0..Len(others) :
            \E side \in {"out", "in"} :
                /\ hit = 0 => side = "out"
                /\ connections' =
                      IF hit = 0 THEN connections
                      ELSE IF side = "out"
                           THEN add_connection(connections, block, others[hit])
                           ELSE add_connection(connections, others[hit], block)
                /\ UNCHANGED <<definitions, canvas_blocks, blocks, next_id, preview,
                               command_display, launched, log, env, loader_vars>>

\* connect_selected_blocks: selected is scene.selectedItems() restricted to canvas
\* blocks, left the one of the two with the smaller x.
connect_selected_blocks ==
    \E selected \in SUBSET Range(canvas_blocks) :
        /\ IF Cardinality(selected) # 2 THEN connections' = connections
           ELSE \E left \in selected :
                   LET right == CHOOSE b \in selected : b # left
                   IN  connections' = add_connection(connections, left, right)
        /\ UNCHANGED <<definitions, canvas_blocks, blocks, next_id, preview,
                       command_display, launched, log, env, loader_vars>>

\* connections.remove(_find_connection(source, target)), when there is one
RemoveFound(conns, source, target) ==
    LET hits == {i \in 1..Len(conns) :
                    conns[i].source = source /\ conns[i].target = target}
    IN  IF hits = {} THEN conns
        ELSE LET k == CHOOSE i \in hits : \A j \in hits : i <= j
             IN  SubSeq(conns, 1, k - 1) \o SubSeq(conns, k + 1, Len(conns))

disconnect_selected_blocks ==
    \E selected \in SUBSET Range(canvas_blocks) :
        /\ IF Cardinality(selected) # 2 THEN connections' = connections
           ELSE \E first \in selected :
                   LET second == CHOOSE b \in selected : b # first
                   IN  connections' =
                           RemoveFound(RemoveFound(connections, first, second),
                                       second, first)
        /\ UNCHANGED <<definitions, canvas_blocks, blocks, next_id, preview,
                       command_display, launched, log, env, loader_vars>>

\* remove_canvas_block(block): [canvas_blocks, connections] after it
remove_canvas_block(state, block) ==
    [canvas_blocks |-> FilterSeq(state.canvas_blocks, LAMBDA b : b # block),
     connections |-> remove_connections_involving(state.connections, block)]

\* delete_selected_canvas_blocks, for the selected blocks in the order given
RECURSIVE delete_selected_canvas_blocks(_, _)
delete_selected_canvas_blocks(state, selected) ==
    IF selected = << >> THEN state
    ELSE delete_selected_canvas_blocks(remove_canvas_block(state, Head(selected)),
                                       Tail(selected))

\* delete_selected_connections: the connections left, marked being the selected
\* lines
delete_selected_connections(conns, marked) ==
    FilterSeq(conns, LAMBDA c : c \notin marked)

\* keyPressEvent with Delete or Backspace: the selected blocks go, then the
\* connections whose line is selected, among those that are left.
keyPressEvent ==
    \E selected \in SUBSET Range(canvas_blocks) :
    \E after \in {delete_selected_canvas_blocks(
                      [canvas_blocks |-> canvas_blocks, connections |-> connections],
                      FilterSeq(canvas_blocks, LAMBDA b : b \in selected))} :
    \E marked \in SUBSET Range(after.connections) :
        /\ canvas_blocks' = after.canvas_blocks
        /\ connections' = delete_selected_connections(after.connections, marked)
        /\ blocks' = [b \in Range(after.canvas_blocks) |-> blocks[b]]
        /\ UNCHANGED <<definitions, next_id, preview, command_display, launched,
                       log, env, loader_vars>>

\* A click on the checkbox of flag i of a placed block.
ToggleFlag ==
    \E b \in Range(canvas_blocks) :
    \E i \in 1..Len(blocks[b].definition.flags) :
        /\ blocks' = [blocks EXCEPT ![b].checked[i] = ~@]
        /\ UNCHANGED <<definitions, canvas_blocks, connections, next_id, preview,
                       command_display, launched, log, env, loader_vars>>

\* Typing text into the value field of flag i of a placed block; the field is
\* enabled only while the checkbox is checked (value_edit.setEnabled).
EditFlagText(texts) ==
    \E b \in Range(canvas_blocks) :
    \E i \in 1..Len(blocks[b].definition.flags) :
    \E text \in texts :
        /\ blocks[b].definition.flags[i].takes_value
        /\ blocks[b].checked[i]
        /\ blocks' = [blocks EXCEPT ![b].text[i] = text]
        /\ UNCHANGED <<definitions, canvas_blocks, connections, next_id, preview,
                       command_display, launched, log, env, loader_vars>>

\* A click on the preview checkbox.
TogglePreview ==
    /\ preview' = ~preview
    /\ UNCHANGED <<definitions, canvas_blocks, connections, blocks, next_id,
                   command_display, launched, log, env, loader_vars>>

\* execute_workflow, were the display updated before the string is looked at
execute_workflow_display_first ==
    /\ Len(launched) < MaxRuns
    /\ command_display' = build_command_string(canvas_blocks, connections, blocks, env)
    /\ log' = "Nothing to execute."
    /\ UNCHANGED <<definitions, canvas_blocks, connections, blocks, next_id, preview,
                   launched, env, loader_vars>>

\* execute_workflow, were the preview checkbox not looked at
execute_workflow_despite_preview ==
    /\ Len(launched) < MaxRuns
    /\ build_command_string(canvas_blocks, connections, blocks, env) # << >>
    /\ command_display' = build_command_string(canvas_blocks, connections, blocks, env)
    /\ launched' = Append(launched,
                          build_command_string(canvas_blocks, connections, blocks, env))
    /\ log' = "Executing pipeline"
    /\ UNCHANGED <<definitions, canvas_blocks, connections, blocks, next_id, preview,
                   env, loader_vars>>

\* execute_workflow. path is what _resolve_edsuite_path finds ("dir": an existing
\* directory, "OSError": resolve() raised, "missing": not a directory), run what
\* subprocess.run does ("ran" or "raised").
execute_workflow ==
    /\ Len(launched) < MaxRuns
    /\ \E path \in {"dir", "OSError", "missing"} :
       \E run \in {"ran", "raised"} :
       \E command_string \in
              {build_command_string(canvas_blocks, connections, blocks, env)} :
          IF command_string = << >>
          THEN /\ log' = "Nothing to execute."
               /\ UNCHANGED <<command_display, launched>>
          ELSE /\ command_display' = command_string
               /\ IF path # "dir"
                  THEN /\ log' = (IF path = "OSError" THEN "Invalid edsuite path"
                                  ELSE "edsuite path does not exist")
                       /\ UNCHANGED launched
                  ELSE IF preview
                  THEN /\ log' = "Preview mode enabled; command not executed."
                       /\ UNCHANGED launched
                  ELSE IF run = "ran"
                  THEN /\ log' = "Executing pipeline"
                       /\ launched' = Append(launched, command_string)
                  ELSE /\ log' = "Failed to execute pipeline"
                       /\ UNCHANGED launched
    /\ UNCHANGED <<definitions, canvas_blocks, connections, blocks, next_id, preview,
                   env, loader_vars>>

\* The canvas: placing, connecting and deleting blocks.
Next ==
    \/ spawn_canvas_block
    \/ try_snap_block
    \/ connect_selected_blocks
    \/ disconnect_selected_blocks
    \/ keyPressEvent

Spec == Init /\ [][Next]_vars

\* The execution controls. execute_workflow reads the canvas and writes only
\* command_display, launched and log, which no canvas action reads; here the
\* canvas changes by placing and deleting blocks.
NextExec ==
    \/ spawn_canvas_block
    \/ keyPressEvent
    \/ TogglePreview
    \/ execute_workflow

ExecSpec == Init /\ [][NextExec]_vars

\* The flag widgets of the placed blocks: clicks on the checkboxes and texts typed
\* into the value fields, in each of the environments.
InitFlag == \E i \in 1..Len(FlagFiles) : \E e \in Envs : InitEditor(FlagFiles[i], e)

NextFlag ==
    \/ ToggleFlag
    \/ EditFlagText(AllTexts)

FlagSpec == InitFlag /\ [][NextFlag]_vars

\* - {id: e, command: e}
EntryE ==
    YDict([id |-> YStr(<<"e">>), command |-> YStr(<<"e">>)])

\* A blocks.yaml of four blocks, which the editor places and chains at start.
ChainFile == Catalog(<<EntryD(TRUE), EntryA(TRUE), EntryE, EntryB(TRUE)>>)

InitChain == InitEditor(ChainFile, HomeEnv)

\* The canvas of the bootstrapped blocks: connecting, disconnecting and deleting.
NextChain ==
    \/ try_snap_block
    \/ connect_selected_blocks
    \/ disconnect_selected_blocks
    \/ keyPressEvent

ChainSpec == InitChain /\ [][NextChain]_vars

\* ------------------------------------------------------- the loader alone
\* A key the mapping does not have.
Absent == [t |-> "absent", v |-> 0]

\* The mapping with the keys of r that are not Absent.
Mapping(r) == YDict([k \in {k \in DOMAIN r : r[k].t # "absent"} |-> r[k]])

\* Flag entries of a catalog.
FlagEntries ==
    {YStr(<<"s">>),
     Mapping([long |-> YStr(<<"n">>)]),
     Mapping([long |-> YStr(<<"-", "-", "n">>)]),
     Mapping([long |-> YInt(5)]),
     Mapping([short |-> YStr(<<"s">>)]),
     Mapping([name |-> YStr(<<"m">>)]),
     Mapping([long |-> Absent]),
     Mapping([long |-> YStr(<<"n">>), short |-> YInt(3)]),
     Mapping([long |-> YStr(<<" ">>)]),
     Mapping([long |-> YStr(<<"n">>), short |-> YStr(<<"s">>)]),
     Mapping([long |-> YStr(<<"n">>), takes_value |-> YBool(FALSE),
              default |-> YBool(TRUE)]),
     Mapping([long |-> YStr(<<"n">>), default |-> YInt(5)]),
     Mapping([long |-> YStr(<<"-", "x", " ">>)]),
     Mapping([long |-> YStr(<<" ", "n">>), short |-> YStr(<<"-", "s">>)]),
     Mapping([long |-> YStr(<<"-">>), short |-> YStr(<<" ">>)])}

\* Block entries of a catalog.
BlockEntries ==
    {YStr(<<"x">>), YNull, Mapping([id |-> Absent])}
        \cup {Mapping([id |-> id, command |-> command, flags |-> Absent]) :
                 id \in {Absent, YStr(<<"a">>), YStr(<<" ">>), YInt(7)},
                 command \in {Absent, YStr(<<"c">>), YStr(<<" ", " ">>)}}
        \cup {Mapping([id |-> YStr(<<"b">>), flags |-> flags]) :
                 flags \in {YStr(<<"n">>)} \cup {YList(f) : f \in SeqsUpTo(FlagEntries, 1)}}
        \cup {Mapping([id |-> YStr(<<"b">>),
                       flags |-> YList(<<Mapping([long |-> YStr(<<"n">>)]), f>>)]) :
                 f \in FlagEntries}

\* A catalog file has at most MaxEntries block entries in this model.
MaxEntries == 2

\* What yaml.safe_load returns for the catalog files of this model.
Contents ==
    {YNull, YList(<< >>), YList(<<YStr(<<"x">>)>>), YStr(<<"x">>), YInt(5), YBool(TRUE),
     Mapping([blocks |-> Absent]), Mapping([other |-> YInt(1)])}
        \cup {Mapping([blocks |-> b]) :
                 b \in {YNull, YInt(5), YStr(<<"x", "y">>),
                        Mapping([a |-> YInt(1)])}}
        \cup {Mapping([blocks |-> YList(entries)]) :
                 entries \in SeqsUpTo(BlockEntries, MaxEntries)}

LoadFiles ==
    {[exists |-> FALSE, read |-> "ok", content |-> YNull]}
        \cup {[exists |-> TRUE, read |-> r, content |-> YNull] :
                 r \in {"OSError", "YAMLError", "UnicodeDecodeError"}}
        \cup {ReadableFile(c) : c \in Contents}

\* load_result before load_block_definitions was called.
NotLoaded == [called |-> FALSE]

InitLoad ==
    /\ catalog_file \in LoadFiles
    /\ load_result = NotLoaded
    /\ definitions = << >>
    /\ canvas_blocks = << >>
    /\ connections = << >>
    /\ blocks = << >>
    /\ next_id = 1
    /\ preview = FALSE
    /\ command_display = << >>
    /\ launched = << >>
    /\ log = "none"
    /\ env = HomeEnv

\* build_app / main: definitions = load_block_definitions(yaml_path)
LoadCatalog ==
    /\ load_result = NotLoaded
    /\ load_result' = load_block_definitions(catalog_file)
    /\ UNCHANGED <<catalog_file, editor_vars>>

NextLoad == LoadCatalog

LoadSpec == InitLoad /\ [][NextLoad]_vars

\* ================================================================ claims
\* The connections out of block b, and into it.
Outgoing(conns, b) == {i \in 1..Len(conns) : conns[i].source = b}
Incoming(conns, b) == {i \in 1..Len(conns) : conns[i].target = b}

\* C1: in every reachable state each placed block is the source of at most one
\* connection and the target of at most one connection.
C1_ChainTopology ==
    \A b \in Range(canvas_blocks) :
        /\ Cardinality(Outgoing(connections, b)) <= 1
        /\ Cardinality(Incoming(connections, b)) <= 1

\* C1 witness: add_connection has replaced connections of the bootstrapped chain:
\* two connections, one of them against the placement order.
C1_Witness ==
    /\ Len(connections) >= 2
    /\ \E i \in 1..Len(connections) : connections[i].source > connections[i].target

\* The connections of conns that have neither S as source nor T as target.
Untouched(conns, S, T) == FilterSeq(conns, LAMBDA c : c.source # S /\ c.target # T)

\* C2: a step that creates the connection S -> T (add_connection(S, T) with S # T
\* and no S -> T before) leaves S -> T as the only connection out of S and the
\* only one into T, and leaves every connection that has neither S as source nor
\* T as target as it was.
C2_AddConnection ==
    [][\A S, T \in Range(canvas_blocks) :
          (/\ S # T
           /\ ~_find_connection(connections, S, T)
           /\ _find_connection(connections', S, T))
          => /\ \A i \in Outgoing(connections', S) : connections'[i].target = T
             /\ \A i \in Incoming(connections', T) : connections'[i].source = S
             /\ Cardinality(Outgoing(connections', S)) = 1
             /\ Untouched(connections', S, T) = Untouched(connections, S, T)]_vars

\* C2 witness: add_connection(1, 2) has replaced 1 -> 3 and 3 -> 2 and kept 2 -> 1.
C2_Witness ==
    /\ Len(connections) = 2
    /\ connections[1] = [source |-> 2, target |-> 1]
    /\ connections[2] = [source |-> 1, target |-> 2]

\* The command template of a placed block.
Command(b) == blocks[b].definition.command

\* Every flag checkbox of every placed block is off.
AllFlagsDisabled ==
    \A b \in Range(canvas_blocks) :
        \A i \in 1..Len(blocks[b].checked) : ~blocks[b].checked[i]

\* The placed blocks are exactly A, B, C, connected as the chain A -> B -> C.
IsChain(A, B, C) ==
    /\ Cardinality({A, B, C}) = 3
    /\ Range(canvas_blocks) = {A, B, C}
    /\ Len(connections) = 2
    /\ Range(connections) = {[source |-> A, target |-> B], [source |-> B, target |-> C]}

Pipe == <<" ", "|", " ">>

\* C3, as claimed: for the chain A -> B -> C with every flag disabled the command
\* string is "<A.command> | <B.command> | <C.command>".
C3_ChainStringAsClaimed ==
    \A A, B, C \in Range(canvas_blocks) :
        (IsChain(A, B, C) /\ AllFlagsDisabled)
        => build_command_string(canvas_blocks, connections, blocks, env)
               = Command(A) \o Pipe \o Command(B) \o Pipe \o Command(C)

\* C3, amended: it is so when the three command templates are non-empty (a block
\* with an empty command template contributes no segment and no separator).
C3_ChainString ==
    \A A, B, C \in Range(canvas_blocks) :
        (/\ IsChain(A, B, C)
         /\ AllFlagsDisabled
         /\ \A b \in {A, B, C} : Command(b) # << >>)
        => build_command_string(canvas_blocks, connections, blocks, env)
               = Command(A) \o Pipe \o Command(B) \o Pipe \o Command(C)

\* C3 witness: the chain 3 -> 1 -> 2 of three blocks with the commands d, a, b, the
\* connection 1 -> 2 added after 3 -> 1.
C3_Witness ==
    /\ IsChain(3, 1, 2)
    /\ connections[1].source = 3
    /\ Cardinality({Command(b) : b \in {1, 2, 3}}) = 3
    /\ \A b \in {1, 2, 3} : Command(b) # << >>

\* The blocks reached from the blocks of from by following at most n connections.
RECURSIVE Following(_, _)
Following(from, n) ==
    IF n = 0 THEN from
    ELSE Following(from \cup {c.target : c \in {d \in Range(connections) : d.source \in from}},
                   n - 1)

\* The blocks a chain walk starts at: no incoming connection, one outgoing.
StartBlocks ==
    {b \in Range(canvas_blocks) :
        Incoming(connections, b) = {} /\ Outgoing(connections, b) # {}}

\* The blocks some chain walk reaches.
Reached == Following(StartBlocks, Len(canvas_blocks))

\* The position of x in the sequence s.
Position(s, x) == CHOOSE i \in 1..Len(s) : s[i] = x

\* order holds each placed block exactly once, the blocks no walk reaches after the
\* reached ones and in placement order.
IsOrderOfCanvas(order) ==
    /\ Len(order) = Len(canvas_blocks)
    /\ Range(order) = Range(canvas_blocks)
    /\ \A x, y \in Range(canvas_blocks) \ Reached :
          Position(canvas_blocks, x) < Position(canvas_blocks, y)
          => Position(order, x) < Position(order, y)
    /\ \A x \in Reached, y \in Range(canvas_blocks) \ Reached :
          Position(order, x) < Position(order, y)

OnCycle(c) == c.source \in Following({c.target}, Len(canvas_blocks))

\* The connections in the order p, a permutation of their indices.
Reordered(p) == [i \in 1..Len(connections) |-> connections[p[i]]]

\* C5: when the connections contain a cycle, ordered_blocks and
\* build_command_string return a finite result (the order holds each placed block
\* once), and the result is the same for every order of creation of the same
\* connections.
C5_CycleTerminates ==
    (\E c \in Range(connections) : OnCycle(c))
    => /\ Len(ordered_blocks(canvas_blocks, connections)) = Len(canvas_blocks)
       /\ Range(ordered_blocks(canvas_blocks, connections)) = Range(canvas_blocks)
       /\ \A p \in Permutations(1..Len(connections)) :
             /\ ordered_blocks(canvas_blocks, Reordered(p))
                   = ordered_blocks(canvas_blocks, connections)
             /\ build_command_string(canvas_blocks, Reordered(p), blocks, env)
                   = build_command_string(canvas_blocks, connections, blocks, env)

\* C5 witness: the cycle 1 -> 2 -> 1, the connection out of 2 created first.
C5_Witness ==
    /\ Len(connections) = 2
    /\ connections[1] = [source |-> 2, target |-> 1]
    /\ connections[2] = [source |-> 1, target |-> 2]
    /\ OnCycle(connections[1])

\* C6: there is no chain starting point exactly when every connection (if any)
\* lies on a cycle, and then ordered_blocks returns canvas_blocks, the placement
\* order.
C6_PlacementOrder ==
    /\ (StartBlocks = {}) <=> (\A c \in Range(connections) : OnCycle(c))
    /\ (\A c \in Range(connections) : OnCycle(c))
       => ordered_blocks(canvas_blocks, connections) = canvas_blocks

\* C6 witness: block 1 is placed before the blocks 2 and 3 of the cycle 2 -> 3 -> 2.
C6_Witness ==
    /\ canvas_blocks = <<1, 2, 3>>
    /\ Range(connections) = {[source |-> 2, target |-> 3], [source |-> 3, target |-> 2]}
    /\ \A c \in Range(connections) : OnCycle(c)

\* The flags of the placed block b that contribute an argument: the enabled ones,
\* a value-taking one only with a text that is not blank.
Contributing(b) ==
    {i \in 1..Len(blocks[b].definition.flags) :
        /\ blocks[b].checked[i]
        /\ blocks[b].definition.flags[i].takes_value => Strip(blocks[b].text[i]) # << >>}

\* The k-th smallest element of the set S of numbers.
NthOf(S, k) == CHOOSE i \in S : Cardinality({j \in S : j < i}) = k - 1

\* s begins with prefix.
StartsWith(s, prefix) == Len(s) >= Len(prefix) /\ SubSeq(s, 1, Len(prefix)) = prefix

\* Each of args after a space.
RECURSIVE Spaced(_)
Spaced(args) ==
    IF args = << >> THEN << >> ELSE <<" ">> \o Head(args) \o Spaced(Tail(args))

\* The arguments flag_arguments returns for b are those of its contributing flags,
\* one each and in the order of the flag list, each beginning with its option.
ArgumentsInFlagOrder(b, args) ==
    /\ Len(args) = Cardinality(Contributing(b))
    /\ \A k \in 1..Len(args) :
          StartsWith(args[k], blocks[b].definition.flags[NthOf(Contributing(b), k)].long_option)

\* The segment of b as text: the command template, then each argument after a space.
SegmentText(b) == Command(b) \o Spaced(flag_arguments(blocks[b], env))

\* C7: a flag whose checkbox is off contributes no argument whatever its text; an
\* enabled flag that takes no value contributes exactly its option; a block's
\* arguments follow its command template, space-joined, in the order of the flag
\* list; and the segments of successive blocks are joined with " | ".
C7_FlagArguments ==
    /\ \A b \in Range(canvas_blocks) :
          /\ \A i \in 1..Len(blocks[b].definition.flags) :
                /\ \A text \in AllTexts :
                      FlagArgument(blocks[b].definition.flags[i], FALSE, text, env) = << >>
                /\ ~blocks[b].definition.flags[i].takes_value
                   => FlagArgument(blocks[b].definition.flags[i], TRUE, blocks[b].text[i], env)
                         = <<blocks[b].definition.flags[i].long_option>>
          /\ ArgumentsInFlagOrder(b, flag_arguments(blocks[b], env))
          /\ Segment(blocks[b], env) = <<SegmentText(b)>>
    /\ build_command_string(canvas_blocks, connections, blocks, env)
          = IF Len(canvas_blocks) = 1 THEN SegmentText(canvas_blocks[1])
            ELSE SegmentText(connections[1].source) \o Pipe
                     \o SegmentText(connections[1].target)

\* C7 witness: of the flags v, n, q of block g the first and the last are enabled,
\* n is off with the text foo left in its field, and the string is "g --v --q".
C7_Witness ==
    /\ Len(canvas_blocks) = 1
    /\ blocks[1].checked = <<TRUE, FALSE, TRUE>>
    /\ blocks[1].text[2] = <<"f", "o", "o">>
    /\ build_command_string(canvas_blocks, connections, blocks, env)
          = <<"g", " ", "-", "-", "v", " ", "-", "-", "q">>

\* The text a POSIX shell reads from the word q (quoted with ' and "), or None when
\* q is not one whole word: mode is "out", "single" or "double".
RECURSIVE UnquoteFrom(_, _, _)
UnquoteFrom(q, mode, read) ==
    IF q = << >> THEN (IF mode = "out" THEN read ELSE None)
    ELSE IF mode = "out"
         THEN IF Head(q) = "'" THEN UnquoteFrom(Tail(q), "single", read)
              ELSE IF Head(q) = "\"" THEN UnquoteFrom(Tail(q), "double", read)
              ELSE IF Head(q) \in SafeChars
                   THEN UnquoteFrom(Tail(q), "out", Append(read, Head(q)))
                   ELSE None
         ELSE IF mode = "single"
         THEN IF Head(q) = "'" THEN UnquoteFrom(Tail(q), "out", read)
              ELSE UnquoteFrom(Tail(q), "single", Append(read, Head(q)))
         ELSE IF Head(q) = "\"" THEN UnquoteFrom(Tail(q), "out", read)
              ELSE UnquoteFrom(Tail(q), "double", Append(read, Head(q)))

Unquote(q) == UnquoteFrom(q, "out", << >>)

\* The placed block b has the value-taking flag i enabled.
EnabledValueFlag(b, i) ==
    /\ b \in Range(canvas_blocks)
    /\ i \in 1..Len(blocks[b].definition.flags)
    /\ blocks[b].definition.flags[i].takes_value
    /\ blocks[b].checked[i]

\* The argument the enabled value flag i of b contributes, as flag_arguments
\* computes it.
ValueArgument(b, i) ==
    FlagArgument(blocks[b].definition.flags[i], TRUE, blocks[b].text[i], env)

\* C8, as claimed: an enabled value-taking flag contributes no argument when its
\* text is empty and exactly "<option> v" for every non-empty text v, as entered.
C8_ValueAsEntered ==
    \A b \in Range(canvas_blocks) : \A i \in 1..Len(blocks[b].definition.flags) :
        EnabledValueFlag(b, i)
        => ValueArgument(b, i)
              = IF blocks[b].text[i] = << >> THEN << >>
                ELSE <<blocks[b].definition.flags[i].long_option \o <<" ">>
                           \o blocks[b].text[i]>>

\* args is what an enabled value flag with this option and text contributes: none
\* when the text is empty or blank; otherwise the one argument "<option> q", q one
\* shell word that reads as the text without its surrounding blanks and with a
\* leading ~ expanded to the home directory; which is "<option> v" for a text v
\* of characters the shell does not interpret, such as foo.
ValueArgumentOf(option, text, args) ==
    /\ (args = << >>) <=> (Strip(text) = << >>)
    /\ Len(args) <= 1
    /\ args # << >>
       => /\ StartsWith(args[1], option \o <<" ">>)
          /\ Unquote(SubSeq(args[1], Len(option) + 2, Len(args[1])))
                = IF Head(Strip(text)) = "~"
                  THEN ExpandUser(Strip(text), env.home, env.users)
                  ELSE Strip(text)
    /\ (text # << >> /\ Range(text) \subseteq SafeChars)
       => args = <<option \o <<" ">> \o text>>

\* C8, amended: an enabled value-taking flag contributes no argument when its text
\* is empty or blank, and otherwise exactly "<option> q", q the text stripped of
\* surrounding blanks, ~-expanded and shell-quoted (for v = foo: "<long-option> foo").
C8_ValueArgument ==
    \A b \in Range(canvas_blocks) : \A i \in 1..Len(blocks[b].definition.flags) :
        EnabledValueFlag(b, i)
        => ValueArgumentOf(blocks[b].definition.flags[i].long_option,
                           blocks[b].text[i], ValueArgument(b, i))

\* C8 witness: the enabled value flag n holds the text "f o" and contributes
\* "--n 'f o'".
C8_Witness ==
    \E b \in Range(canvas_blocks) : \E i \in 1..Len(blocks[b].definition.flags) :
        /\ EnabledValueFlag(b, i)
        /\ blocks[b].text[i] = <<"f", " ", "o">>
        /\ ValueArgument(b, i) = <<<<"-", "-", "n", " ", "'", "f", " ", "o", "'">>>>

\* C9: build_command_string returns a string in every state, the empty one exactly
\* when no placed block has a non-empty command template; and a step taken while
\* the string is empty, execute_workflow among them, launches no process and
\* leaves the last-command display as it was.
C9_NothingToExecute ==
    /\ [](build_command_string(canvas_blocks, connections, blocks, env) = << >>
          <=> \A b \in Range(canvas_blocks) : Command(b) = << >>)
    /\ [][build_command_string(canvas_blocks, connections, blocks, env) = << >>
          => launched' = launched /\ command_display' = command_display]_vars

\* C9 witness: execute_workflow found nothing to execute on a canvas whose only
\* block has an empty command template, after an earlier command was displayed.
C9_Witness ==
    /\ log = "Nothing to execute."
    /\ Len(canvas_blocks) = 1
    /\ Command(canvas_blocks[1]) = << >>
    /\ command_display # << >>
    /\ launched # << >>

\* C10: for every catalog file (missing, unreadable, syntactically invalid, of an
\* unexpected shape, or well formed) load_block_definitions returns a non-empty
\* list of definitions and propagates no exception.
C10_AlwaysDefinitions ==
    load_result # NotLoaded => load_result.ok /\ Len(load_result.value) >= 1

\* load_block_definitions was called.
Loaded == load_result # NotLoaded

\* The document of the catalog file: yaml.safe_load(handle) or {}
Document(file) == Or(file.content, EmptyDict)

\* The catalog file is read as a mapping whose 'blocks' (if any) is a list.
ReadAsList(file) ==
    /\ file.exists
    /\ file.read = "ok"
    /\ Document(file).t = "dict"
    /\ GetOr(Document(file), "blocks", YList(<< >>)).t = "list"

\* The block entries of such a file.
EntriesOf(file) == GetOr(Document(file), "blocks", YList(<< >>)).v

\* C11: when the catalog's 'blocks' list is empty or holds no dictionary,
\* load_block_definitions returns exactly one definition, the fallback: its
\* identifier is "default" and its command an echo.
C11_FallbackOnly ==
    (/\ Loaded
     /\ ReadAsList(catalog_file)
     /\ \A entry \in Range(EntriesOf(catalog_file)) : entry.t # "dict")
    => /\ load_result.ok
       /\ Len(load_result.value) = 1
       /\ load_result.value[1].identifier = <<"d", "e", "f", "a", "u", "l", "t">>
       /\ StartsWith(load_result.value[1].command, <<"e", "c", "h", "o", " ">>)

\* C11 witness: a catalog of two entries, neither a dictionary, was loaded.
C11_Witness ==
    /\ Loaded
    /\ ReadAsList(catalog_file)
    /\ Len(EntriesOf(catalog_file)) = 2
    /\ \A entry \in Range(EntriesOf(catalog_file)) : entry.t # "dict"
    /\ load_result.ok

\* The dictionaries among the block entries of the file, in file order.
DictEntries(file) == FilterSeq(EntriesOf(file), LAMBDA entry : entry.t = "dict")

\* The flag entries of a block entry: its 'flags' when that is a list.
FlagEntriesOf(entry) ==
    IF GetOr(entry, "flags", YList(<< >>)).t = "list"
    THEN GetOr(entry, "flags", YList(<< >>)).v
    ELSE << >>

\* The flag entry is a dictionary with a 'long' or a 'short' key.
HasOptionKey(flag_entry) ==
    IF flag_entry.t = "dict" THEN {"long", "short"} \cap DOMAIN flag_entry.v # {} ELSE FALSE

\* The long option a dictionary flag entry names: its 'long', or else its 'name'.
LongOf(flag_entry) == Or(Get(flag_entry, "long"), Get(flag_entry, "name"))

\* The flag entry is a dictionary that names a long option that is not blank.
HasLongOption(flag_entry) ==
    IF flag_entry.t = "dict"
    THEN LongOf(flag_entry).t = "str" /\ Strip(LongOf(flag_entry).v) # << >>
    ELSE FALSE

\* s ends with suffix.
EndsWith(s, suffix) ==
    Len(s) >= Len(suffix) /\ SubSeq(s, Len(s) - Len(suffix) + 1, Len(s)) = suffix

\* The catalog was loaded and its dictionary entries returned as definitions.
ReturnedEntries ==
    /\ Loaded
    /\ ReadAsList(catalog_file)
    /\ load_result.ok
    /\ DictEntries(catalog_file) # << >>

\* C12, as claimed: the flag list of a parsed definition holds one flag for each
\* flag entry that is a dictionary with a 'long' or a 'short' key, and no other.
C12_KeptByOptionKey ==
    ReturnedEntries
    => \A k \in 1..Len(load_result.value) :
          Len(load_result.value[k].flags)
             = Len(FilterSeq(FlagEntriesOf(DictEntries(catalog_file)[k]), HasOptionKey))

\* flags are the flags of the entries kept, one each and in their order.
FlagsAreOf(flags, kept) ==
    /\ Len(flags) = Len(kept)
    /\ \A j \in 1..Len(flags) :
          EndsWith(flags[j].long_option, Strip(LongOf(kept[j]).v))

\* C12, amended: the flag list of a returned definition holds, in order, one flag
\* for each flag entry that is a dictionary naming a long option that is not blank
\* ('long', or else 'name'), and no other: a non-dictionary, an entry without these
\* and an entry with a short option only are left out.
C12_KeptByLongOption ==
    ReturnedEntries
    => \A k \in 1..Len(load_result.value) :
          FlagsAreOf(load_result.value[k].flags,
                     FilterSeq(FlagEntriesOf(DictEntries(catalog_file)[k]), HasLongOption))

\* C12 witness: of the two flag entries of a block the first has a long option and
\* the second a short option only, and the definition has one flag.
C12_Witness ==
    /\ ReturnedEntries
    /\ Len(FlagEntriesOf(DictEntries(catalog_file)[1])) = 2
    /\ HasOptionKey(FlagEntriesOf(DictEntries(catalog_file)[1])[2])
    /\ ~HasLongOption(FlagEntriesOf(DictEntries(catalog_file)[1])[2])
    /\ Len(load_result.value[1].flags) = 1

\* The identifier the dictionary entry gives: its 'id', when that is a string that
\* is not blank.
GivesIdentifier(entry) ==
    Get(entry, "id").t = "str" /\ Strip(Get(entry, "id").v) # << >>

\* C13: whatever entries the 'blocks' list of the catalog holds, the load ends
\* without an error; the entries that are not dictionaries are dropped and every
\* dictionary entry is returned as a definition, in the order of the file.
C13_EntriesSurvive ==
    (Loaded /\ ReadAsList(catalog_file))
    => /\ load_result.ok
       /\ DictEntries(catalog_file) # << >>
          => /\ Len(load_result.value) = Len(DictEntries(catalog_file))
             /\ \A k \in 1..Len(load_result.value) :
                   GivesIdentifier(DictEntries(catalog_file)[k])
                   => load_result.value[k].identifier
                         = Strip(Get(DictEntries(catalog_file)[k], "id").v)

\* The option strings the flag entries of the catalog file give as 'long', 'name'
\* or 'short'.
OptionStrings(file) ==
    {o.v : o \in {option \in UNION {UNION {{Get(f, "long"), Get(f, "name"), Get(f, "short")} :
                                          f \in {g \in Range(FlagEntriesOf(entry)) : g.t = "dict"}} :
                                  entry \in Range(DictEntries(file))} :
                     option.t = "str"}}

Prefixes == {<<"-", "-">>, <<"-">>}

\* C14, as claimed: every non-empty option of a parsed flag starts with a dash; an
\* option string that starts with a dash is returned unchanged by ensure_prefixed,
\* any other with the prefix before it; and ensure_prefixed applied to its result
\* gives that result.
C14_PrefixedAsClaimed ==
    (Loaded /\ ReadAsList(catalog_file))
    => \A o \in OptionStrings(catalog_file) \ {<< >>} : \A prefix \in Prefixes :
          /\ ensure_prefixed(YStr(o), prefix)
                = Return(IF Head(o) = "-" THEN o ELSE prefix \o o)
          /\ ensure_prefixed(YStr(ensure_prefixed(YStr(o), prefix).value), prefix)
                = ensure_prefixed(YStr(o), prefix)

\* What ensure_prefixed makes of the option string o: o without its surrounding
\* blanks, after the prefix unless it is empty or starts with a dash.
Dashed(o, prefix) ==
    IF o = << >> \/ Head(o) = "-" THEN o ELSE prefix \o o

\* The options of flags are those of the flag entries kept, stripped and dashed.
OptionsAreOf(flags, kept) ==
    \A j \in 1..Len(flags) :
        /\ Head(flags[j].long_option) = "-"
        /\ flags[j].long_option = Dashed(Strip(LongOf(kept[j]).v), <<"-", "-">>)
        /\ flags[j].short_option
              = IF Truthy(Get(kept[j], "short"))
                THEN Dashed(Strip(Get(kept[j], "short").v), <<"-">>)
                ELSE None
        /\ flags[j].short_option \in {None, << >>} \/ Head(flags[j].short_option) = "-"

\* C14, amended: every non-empty option of a parsed flag starts with a dash;
\* ensure_prefixed first strips the surrounding blanks of an option string, then
\* returns it unchanged when it is empty or starts with a dash and with the prefix
\* ("--" long, "-" short) before it otherwise; and ensure_prefixed applied to its
\* result gives that result.
C14_Prefixed ==
    (Loaded /\ ReadAsList(catalog_file))
    => /\ \A o \in OptionStrings(catalog_file) : \A prefix \in Prefixes :
             /\ ensure_prefixed(YStr(o), prefix) = Return(Dashed(Strip(o), prefix))
             /\ ensure_prefixed(YStr(ensure_prefixed(YStr(o), prefix).value), prefix)
                   = ensure_prefixed(YStr(o), prefix)
       /\ (load_result.ok /\ DictEntries(catalog_file) # << >>)
          => \A k \in 1..Len(load_result.value) :
                OptionsAreOf(load_result.value[k].flags,
                             FilterSeq(FlagEntriesOf(DictEntries(catalog_file)[k]),
                                       HasLongOption))

\* C14 witness: a parsed flag has the options --n and -s, from the entry
\* {long: " n", short: "-s"}.
C14_Witness ==
    /\ ReturnedEntries
    /\ <<" ", "n">> \in OptionStrings(catalog_file)
    /\ \E k \in 1..Len(load_result.value) :
       \E j \in 1..Len(load_result.value[k].flags) :
          /\ load_result.value[k].flags[j].long_option = <<"-", "-", "n">>
          /\ load_result.value[k].flags[j].short_option = <<"-", "s">>

\* starts holds the blocks with no incoming and one outgoing connection, each
\* once, in placement order.
StartsInPlacementOrder(starts) ==
    /\ Range(starts) = StartBlocks
    /\ Len(starts) = Cardinality(StartBlocks)
    /\ \A s \in StartBlocks : Cardinality(Outgoing(connections, s)) = 1
    /\ \A i, j \in 1..Len(starts) :
          i < j => Position(canvas_blocks, starts[i]) < Position(canvas_blocks, starts[j])

\* The blocks of the chain that starts at s.
Chain(s) == Following({s}, Len(canvas_blocks))

\* In order the chains come in the placement order of their starting blocks, and
\* the target of every connection of a chain comes right after its source.
ChainsInOrder(order) ==
    /\ \A s, t \in StartBlocks :
          Position(canvas_blocks, s) < Position(canvas_blocks, t)
          => \A x \in Chain(s), y \in Chain(t) : Position(order, x) < Position(order, y)
    /\ \A c \in Range(connections) :
          c.source \in Reached
          => Position(order, c.target) = Position(order, c.source) + 1

\* C15: ordered_blocks starts a walk at exactly the blocks with no incoming and one
\* outgoing connection, emits the chains in the placement order of their starting
\* blocks, and within a chain the target of every connection comes immediately
\* after its source.
C15_DisjointChains ==
    /\ StartsInPlacementOrder(Starts(canvas_blocks, connections))
    /\ ChainsInOrder(ordered_blocks(canvas_blocks, connections))

\* C15 witness: the two chains 2 -> 1 and 4 -> 3, the second connected first, are
\* emitted as 2, 1, 4, 3.
C15_Witness ==
    /\ Cardinality(StartBlocks) = 2
    /\ connections = <<[source |-> 4, target |-> 3], [source |-> 2, target |-> 1]>>
    /\ ordered_blocks(canvas_blocks, connections) = <<2, 1, 4, 3>>

\* The connection c has the block b as its source or its target.
Touches(c, b) == c.source = b \/ c.target = b

\* What the claim says remove_canvas_block(X) leaves: the other blocks and the
\* connections that do not touch X, in their order.
WithoutBlock(X) ==
    [canvas_blocks |-> FilterSeq(canvas_blocks, LAMBDA b : b # X),
     connections |-> FilterSeq(connections, LAMBDA c : ~Touches(c, X))]

\* A step that removed the blocks of removed left the other blocks in their order
\* with their flag widgets, and no connection that touches a removed block.
BlocksRemoved(removed) ==
    /\ canvas_blocks' = FilterSeq(canvas_blocks, LAMBDA b : b \notin removed)
    /\ \A b \in Range(canvas_blocks') : blocks'[b] = blocks[b]
    /\ \A c \in Range(connections') :
          c \in Range(connections) /\ \A X \in removed : ~Touches(c, X)

\* C16: both endpoints of every connection are placed blocks;
\* remove_canvas_block(X) removes X and the connections that touch X and leaves
\* the other blocks and connections as they were; and a step that removes blocks
\* leaves no connection to them.
C16_EndpointsPlaced ==
    /\ [](\A c \in Range(connections) :
             c.source \in Range(canvas_blocks) /\ c.target \in Range(canvas_blocks))
    /\ [](\A X \in Range(canvas_blocks) :
             remove_canvas_block([canvas_blocks |-> canvas_blocks,
                                  connections |-> connections], X)
                = WithoutBlock(X))
    /\ [][Range(canvas_blocks') # Range(canvas_blocks) /\ Len(canvas_blocks') < Len(canvas_blocks)
          => BlocksRemoved(Range(canvas_blocks) \ Range(canvas_blocks'))]_vars

\* C16 witness: of the chain 1 -> 2 -> 3 the block 3 was deleted, and 1 -> 2 is left.
C16_Witness ==
    /\ canvas_blocks = <<1, 2>>
    /\ next_id = 4
    /\ connections = <<[source |-> 1, target |-> 2]>>

\* The diagnostics of an execute_workflow that stopped after the display was
\* updated: a path that is not an existing directory, preview mode, or a launch
\* that failed.
NotRun ==
    {"Invalid edsuite path", "edsuite path does not exist",
     "Preview mode enabled; command not executed.", "Failed to execute pipeline"}

\* The step launched the command string command, and nothing else.
LaunchedOnly(command) ==
    /\ command # << >>
    /\ ~preview
    /\ launched' = Append(launched, command)
    /\ command_display' = command
    /\ log' = "Executing pipeline"

\* The step showed the command string command and launched nothing.
ShownNotLaunched(command) ==
    /\ command # << >>
    /\ launched' = launched
    /\ command_display' = command

\* C17: a step launches a process only when the command string is non-empty, the
\* path was found to be a directory and preview is off, and then exactly one; with
\* preview on no step launches; and a step that ends with the diagnostic of an
\* invalid path, of preview mode or of a failed launch has updated the display and
\* launched nothing.
C17_LaunchOnlyWhenReady ==
    /\ [][launched' # launched
          => LaunchedOnly(build_command_string(canvas_blocks, connections, blocks, env))]_vars
    /\ [][preview => launched' = launched]_vars
    /\ [][(log' \in NotRun /\ log' # log)
          => ShownNotLaunched(build_command_string(canvas_blocks, connections, blocks, env))]_vars
    /\ [][(log' = "Preview mode enabled; command not executed." /\ log' # log)
          => preview]_vars

\* C17 witness: after a pipeline was launched, another command was built in
\* preview mode: it is displayed and was not launched.
C17_Witness ==
    /\ preview
    /\ log = "Preview mode enabled; command not executed."
    /\ Len(launched) = 1
    /\ command_display # << >>
    /\ command_display # launched[1]

\* The walk from the start s took visited from before to after: it added exactly
\* the blocks of the chain of s, the last of them a block with no outgoing
\* connection.
WalkComplete(s, before, after) ==
    /\ Range(before) \cap Chain(s) = {}
    /\ Range(after) = Range(before) \cup Chain(s)
    /\ Len(after) = Len(before) + Cardinality(Chain(s))
    /\ Outgoing(connections, after[Len(after)]) = {}

\* Each walk of ordered_blocks is complete: starts are its starting blocks and
\* outgoing its successor dictionary.
WalksComplete(starts, outgoing) ==
    \A i \in 1..Len(starts) :
        WalkComplete(starts[i],
                     WalkAll(SubSeq(starts, 1, i - 1), << >>, outgoing),
                     WalkAll(SubSeq(starts, 1, i), << >>, outgoing))

\* C18: the chains of distinct starting blocks are disjoint and hold no block of a
\* cycle, and each walk of ordered_blocks adds the whole chain of its starting
\* block and ends at a block with no outgoing connection: the 'already visited'
\* guard cuts no walk short.
C18_WalksDisjoint ==
    /\ \A s, t \in StartBlocks : s # t => Chain(s) \cap Chain(t) = {}
    /\ \A s \in StartBlocks : \A c \in Range(connections) :
          OnCycle(c) => c.source \notin Chain(s)
    /\ WalksComplete(Starts(canvas_blocks, connections),
                     ConnectionMaps(canvas_blocks, connections).outgoing)

\* C18 witness: the walks from the starting blocks 1 and 3 visit the chains 1 -> 2
\* and 3 -> 4.
C18_Witness ==
    /\ StartBlocks = {1, 3}
    /\ Chain(1) = {1, 2}
    /\ Chain(3) = {3, 4}

====
